---- MODULE Spec2Model ----
(***************************************************************************)
(* Model of scripts/merge_uk_dictionaries.py: the normalizer, the          *)
(* validator, load_words, write_words and the main pipeline.               *)
(* A string is a sequence of Unicode code points; a file is a record that  *)
(* says whether the path exists and which code points it holds.            *)
(***************************************************************************)
EXTENDS Integers, Sequences, FiniteSets, TLC

\* ---------------------------------------------------------------- bounds
MaxLen == 3
MaxLines == 2

\* ------------------------------------------------------- code points used
LF == 10
SPACE == 32
APOSTROPHE == 39
HYPHEN == 45
DIGIT_ONE == 49
LATIN_A == 97
LATIN_CAP_A_CIRC == 194
LATIN_A_ACUTE == 225
LATIN_A_CIRC == 226
LATIN_A_CIRC_ACUTE == 7845
EURO == 8364
TRADE_MARK == 8482
ACCENT == 769
CIRCUMFLEX == 770
CYR_CAP_A == 1040
CYR_A == 1072
CYR_I == 1110
CYR_FIRST == 1024
CYR_LAST == 1327
CONTROL_LIMIT == 32

\* The characters raw input is drawn from.
Alphabet ==
  {LF, SPACE, APOSTROPHE, HYPHEN, DIGIT_ONE, LATIN_A, LATIN_CAP_A_CIRC,
   LATIN_A_CIRC, EURO, TRADE_MARK, ACCENT, CIRCUMFLEX, CYR_CAP_A, CYR_A}

\* ---------------------------------------------------- string primitives
\* str.isspace / the characters str.strip() removes
IsSpace(ch) == ch \in {LF, SPACE}

\* ch.isdigit()
IsDigit(ch) == ch = DIGIT_ONE

\* unicodedata.combining(ch) # 0
IsCombining(ch) == ch \in {ACCENT, CIRCUMFLEX}

\* str.lower(), per character
LowerChar(ch) ==
  CASE ch = CYR_CAP_A -> CYR_A
    [] ch = LATIN_CAP_A_CIRC -> LATIN_A_CIRC
    [] OTHER -> ch

Lower(s) == [i \in 1..Len(s) |-> LowerChar(s[i])]

RECURSIVE LStrip(_)
LStrip(s) ==
  IF s # <<>> /\ IsSpace(Head(s)) THEN LStrip(Tail(s)) ELSE s

RECURSIVE RStrip(_)
RStrip(s) ==
  IF s # <<>> /\ IsSpace(s[Len(s)]) THEN RStrip(SubSeq(s, 1, Len(s) - 1)) ELSE s

\* str.strip()
Strip(s) == RStrip(LStrip(s))

\* the literal replaced on line 17
MISENCODED == <<LATIN_A_CIRC, EURO, TRADE_MARK>>

StartsWith(s, p) == Len(s) >= Len(p) /\ SubSeq(s, 1, Len(p)) = p

\* str.replace(MISENCODED, "'"): left to right, non-overlapping
RECURSIVE ReplaceMisencoded(_)
ReplaceMisencoded(s) ==
  IF s = <<>> THEN <<>>
  ELSE IF StartsWith(s, MISENCODED)
       THEN <<APOSTROPHE>> \o ReplaceMisencoded(SubSeq(s, Len(MISENCODED) + 1, Len(s)))
       ELSE <<Head(s)>> \o ReplaceMisencoded(Tail(s))

\* str.replace(ACCENT, "")
RemoveAccent(s) == SelectSeq(s, LAMBDA ch : ch # ACCENT)

\* canonical composition of a starter with a following combining mark
HasComposite(base, mark) ==
  \/ base = LATIN_A /\ mark \in {ACCENT, CIRCUMFLEX}
  \/ base = LATIN_A_CIRC /\ mark = ACCENT

Composite(base, mark) ==
  CASE base = LATIN_A /\ mark = CIRCUMFLEX -> LATIN_A_CIRC
    [] base = LATIN_A /\ mark = ACCENT -> LATIN_A_ACUTE
    [] base = LATIN_A_CIRC /\ mark = ACCENT -> LATIN_A_CIRC_ACUTE

\* unicodedata.normalize("NFC", s): every mark here has combining class 230,
\* so a mark composes only with the starter immediately before it.
RECURSIVE NFCFrom(_, _)
NFCFrom(out, rest) ==
  IF rest = <<>> THEN out
  ELSE LET ch == Head(rest) IN
       IF /\ out # <<>>
          /\ IsCombining(ch)
          /\ ~IsCombining(out[Len(out)])
          /\ HasComposite(out[Len(out)], ch)
       THEN NFCFrom(SubSeq(out, 1, Len(out) - 1) \o <<Composite(out[Len(out)], ch)>>,
                    Tail(rest))
       ELSE NFCFrom(out \o <<ch>>, Tail(rest))

NFC(s) == NFCFrom(<<>>, s)

\* ------------------------------------------------------------ normalizer
normalize_word(raw) ==
  LET word == ReplaceMisencoded(Lower(Strip(raw))) IN
  IF word = <<>> THEN <<>> ELSE NFC(RemoveAccent(word))

\* ------------------------------------------------------------- validator
is_cyrillic_char(ch) == CYR_FIRST <= ch /\ ch <= CYR_LAST

\* WHITESPACE_RE.search(word)
WHITESPACE_RE(word) == \E i \in 1..Len(word) : IsSpace(word[i])

allowed_punct == {APOSTROPHE, HYPHEN}

\* is_valid_word with the character loop accepting any non-punctuation character
is_valid_word_any_letter(word) ==
  /\ word # <<>>
  /\ ~WHITESPACE_RE(word)
  /\ ~\E i \in 1..Len(word) : IsDigit(word[i])
  /\ ~\E i \in 1..Len(word) : word[i] < CONTROL_LIMIT
  /\ Cardinality({i \in 1..Len(word) : word[i] \notin allowed_punct}) > 0

is_valid_word(word) ==
  /\ word # <<>>
  /\ ~WHITESPACE_RE(word)
  /\ ~\E i \in 1..Len(word) : IsDigit(word[i])
  /\ ~\E i \in 1..Len(word) : word[i] < CONTROL_LIMIT
  /\ \A i \in 1..Len(word) : word[i] \in allowed_punct \/ is_cyrillic_char(word[i])
  /\ Cardinality({i \in 1..Len(word) : word[i] \notin allowed_punct}) > 0

\* ------------------------------------------------------------ load_words
\* the tally created at the top of load_words
ZeroStats ==
  [lines_total |-> 0, empty |-> 0, phrases |-> 0, invalid |-> 0, too_short |-> 0]

\* the loop body with lines_total counted only after the empty check
LoadStep_count_late(ws, st, ln, filter_phrases) ==
  LET counted == [st EXCEPT !.lines_total = @ + 1]
      cand == normalize_word(ln)
  IN
  IF cand = <<>>
  THEN [words |-> ws, stats |-> [st EXCEPT !.empty = @ + 1],
        normalized |-> cand, branch |-> "empty"]
  ELSE IF filter_phrases /\ WHITESPACE_RE(cand)
  THEN [words |-> ws, stats |-> [counted EXCEPT !.phrases = @ + 1],
        normalized |-> cand, branch |-> "phrase"]
  ELSE IF ~is_valid_word(cand)
  THEN [words |-> ws, stats |-> [counted EXCEPT !.invalid = @ + 1],
        normalized |-> cand, branch |-> "invalid"]
  ELSE IF Len(cand) <= 2
  THEN [words |-> ws, stats |-> [counted EXCEPT !.too_short = @ + 1],
        normalized |-> cand, branch |-> "too_short"]
  ELSE [words |-> ws \cup {cand}, stats |-> counted,
        normalized |-> cand, branch |-> "accepted"]

\* One iteration of the "for line in fh" loop: the new word set, the new
\* tally, the normalized candidate and the branch that was taken.
LoadStep(ws, st, ln, filter_phrases) ==
  LET counted == [st EXCEPT !.lines_total = @ + 1]
      cand == normalize_word(ln)
  IN
  IF cand = <<>>
  THEN [words |-> ws, stats |-> [counted EXCEPT !.empty = @ + 1],
        normalized |-> cand, branch |-> "empty"]
  ELSE IF filter_phrases /\ WHITESPACE_RE(cand)
  THEN [words |-> ws, stats |-> [counted EXCEPT !.phrases = @ + 1],
        normalized |-> cand, branch |-> "phrase"]
  ELSE IF ~is_valid_word(cand)
  THEN [words |-> ws, stats |-> [counted EXCEPT !.invalid = @ + 1],
        normalized |-> cand, branch |-> "invalid"]
  ELSE IF Len(cand) <= 2
  THEN [words |-> ws, stats |-> [counted EXCEPT !.too_short = @ + 1],
        normalized |-> cand, branch |-> "too_short"]
  ELSE [words |-> ws \cup {cand}, stats |-> counted,
        normalized |-> cand, branch |-> "accepted"]

\* main filtering phrases for both sources
FilterPhrasesOf_both(src) == TRUE

\* the filter_phrases argument main passes for each source
FilterPhrasesOf(src) == src = "uk_full"

\* Iterating a text file: the lines in order, each with its terminator
\* (the last line has none when the file does not end with a newline).
RECURSIVE ReadLinesFrom(_, _)
ReadLinesFrom(cur, rest) ==
  IF rest = <<>> THEN (IF cur = <<>> THEN <<>> ELSE <<cur>>)
  ELSE IF Head(rest) = LF
       THEN <<cur \o <<LF>>>> \o ReadLinesFrom(<<>>, Tail(rest))
       ELSE ReadLinesFrom(cur \o <<Head(rest)>>, Tail(rest))

ReadLines(data) == ReadLinesFrom(<<>>, data)

\* a line without its terminator
RStripLF(ln) ==
  IF ln # <<>> /\ ln[Len(ln)] = LF THEN SubSeq(ln, 1, Len(ln) - 1) ELSE ln

\* load_words on a file's content: the loop run over every line
RECURSIVE LoadLines(_, _, _, _)
LoadLines(ws, st, lines, filter_phrases) ==
  IF lines = <<>> THEN [words |-> ws, stats |-> st]
  ELSE LET r == LoadStep(ws, st, Head(lines), filter_phrases)
       IN LoadLines(r.words, r.stats, Tail(lines), filter_phrases)

load_words(data, filter_phrases) ==
  LoadLines({}, ZeroStats, ReadLines(data), filter_phrases)

\* ----------------------------------------------------------- write_words
\* str comparison: lexicographic by code point
RECURSIVE StrLess(_, _)
StrLess(s, t) ==
  IF t = <<>> THEN FALSE
  ELSE IF s = <<>> THEN TRUE
  ELSE IF Head(s) # Head(t) THEN Head(s) < Head(t)
  ELSE StrLess(Tail(s), Tail(t))

\* sorted(words, reverse=True)
RECURSIVE sorted_descending(_)
sorted_descending(ws) ==
  IF ws = {} THEN <<>>
  ELSE LET greatest == CHOOSE w \in ws : \A v \in ws \ {w} : StrLess(v, w)
       IN <<greatest>> \o sorted_descending(ws \ {greatest})

\* sorted(words)
RECURSIVE sorted(_)
sorted(ws) ==
  IF ws = {} THEN <<>>
  ELSE LET least == CHOOSE w \in ws : \A v \in ws \ {w} : StrLess(w, v)
       IN <<least>> \o sorted(ws \ {least})

RECURSIVE WriteLines(_)
WriteLines(list) ==
  IF list = <<>> THEN <<>>
  ELSE Head(list) \o <<LF>> \o WriteLines(Tail(list))

\* write_words without the fh.write("\n") after each word
RECURSIVE Concatenated(_)
Concatenated(list) ==
  IF list = <<>> THEN <<>>
  ELSE Head(list) \o Concatenated(Tail(list))

write_words_no_newline(ws) == Concatenated(sorted(ws))

\* the content write_words leaves in the file
write_words(ws) == WriteLines(sorted(ws))

\* ------------------------------------------------------------------ state
VARIABLES
  pc,               \* position in main (or in a direct call of a function)
  replace_runtime,  \* args.replace_runtime
  disk,             \* the two input files and the two word-list outputs
  report_out,       \* the report file: <<>> while absent, else <<report>>
  source,           \* which input load_words is reading
  pending,          \* lines of the open input not yet iterated
  line,             \* load_words: the current raw line
  normalized,       \* load_words: normalize_word(line)
  branch,           \* load_words: the branch the last line took
  words,            \* load_words: the set being built
  stats,            \* load_words: the tally being built
  uk_ua_words, uk_ua_stats, uk_full_words, uk_full_stats,
  merged, only_uk_ua, only_uk_full, intersection,
  writes,           \* paths written by the current run, in order
  start_disk,       \* disk as it was when the current run started
  rerun,            \* TRUE once the tool has been started a second time
  prev              \* what the previous run left: flag, merged set, merged file

vars ==
  <<pc, replace_runtime, disk, report_out, source, pending, line, normalized,
    branch, words, stats, uk_ua_words, uk_ua_stats, uk_full_words,
    uk_full_stats, merged, only_uk_ua, only_uk_full, intersection, writes,
    start_disk, rerun, prev>>

loadVars == <<source, pending, line, normalized, branch, words, stats>>
resultVars == <<uk_ua_words, uk_ua_stats, uk_full_words, uk_full_stats>>
setVars == <<merged, only_uk_ua, only_uk_full, intersection>>
runVars == <<replace_runtime, start_disk, rerun, prev>>

Absent == [exists |-> FALSE, data |-> <<>>]
Present(data) == [exists |-> TRUE, data |-> data]

\* ------------------------------------------------------------ input files
L_EMPTY == <<SPACE>>
L_PLAIN == <<CYR_A, CYR_A, CYR_A>>
L_ACCENTED == <<CYR_CAP_A, CYR_A, ACCENT, CYR_A>>
L_HYPHEN == <<CYR_I, HYPHEN, CYR_A>>
L_PHRASE == <<CYR_A, SPACE, CYR_A, CYR_A>>
L_SHORT == <<CYR_A, APOSTROPHE>>
L_APOS == <<CYR_A, LATIN_A_CIRC, EURO, TRADE_MARK, CYR_A>>
L_LATIN == <<LATIN_A, HYPHEN, LATIN_A>>

PoolA == {L_EMPTY, L_PLAIN, L_HYPHEN, L_PHRASE, L_SHORT}
PoolB == {L_EMPTY, L_ACCENTED, L_APOS, L_PHRASE, L_LATIN}

\* the text of a file whose lines are the given ones, each ended by a newline
RECURSIVE TextOfLines(_)
TextOfLines(list) ==
  IF list = <<>> THEN <<>>
  ELSE Head(list) \o <<LF>> \o TextOfLines(Tail(list))

\* every file of at most MaxLines lines of the pool, plus the missing file
InputFiles(pool) ==
  {Absent} \cup
  {Present(TextOfLines(list)) : list \in UNION {[1..n -> pool] : n \in 0..MaxLines}}

\* every raw string of at most MaxLen characters
RawStrings == UNION {[1..n -> Alphabet] : n \in 0..MaxLen}

NoPrev == [replace_runtime |-> FALSE, merged |-> {}, merged_file |-> Absent]

\* ------------------------------------------------------------------- main
Init ==
  /\ pc = "load_uk_ua"
  /\ replace_runtime \in BOOLEAN
  /\ \E fa \in InputFiles(PoolA), fb \in InputFiles(PoolB) :
       disk = [uk_ua |-> fa, uk_full |-> fb, merged_out |-> Absent, custom_out |-> Absent]
  /\ report_out = <<>>
  /\ source = "uk_ua"
  /\ pending = <<>>
  /\ line = <<>>
  /\ normalized = <<>>
  /\ branch = "none"
  /\ words = {}
  /\ stats = ZeroStats
  /\ uk_ua_words = {} /\ uk_ua_stats = ZeroStats
  /\ uk_full_words = {} /\ uk_full_stats = ZeroStats
  /\ merged = {} /\ only_uk_ua = {} /\ only_uk_full = {} /\ intersection = {}
  /\ writes = <<>>
  /\ start_disk = disk
  /\ rerun = FALSE
  /\ prev = NoPrev

PcOfLoad(src) == IF src = "uk_ua" THEN "load_uk_ua" ELSE "load_uk_full"

\* load_words: path.open on a file that exists
OpenInput(src) ==
  /\ pc = PcOfLoad(src)
  /\ disk[src].exists
  /\ pc' = "reading"
  /\ source' = src
  /\ pending' = ReadLines(disk[src].data)
  /\ words' = {}
  /\ stats' = ZeroStats
  /\ line' = <<>> /\ normalized' = <<>> /\ branch' = "none"
  /\ UNCHANGED <<disk, report_out, resultVars, setVars, writes, runVars>>

\* a missing input treated as an empty word list instead of raising
MissingInput_swallowed(src) ==
  /\ pc = PcOfLoad(src)
  /\ ~disk[src].exists
  /\ pc' = (IF src = "uk_ua" THEN "load_uk_full" ELSE "sets")
  /\ UNCHANGED <<disk, report_out, loadVars, resultVars, setVars, writes, runVars>>

\* load_words: path.open raises, nothing catches it
MissingInput(src) ==
  /\ pc = PcOfLoad(src)
  /\ ~disk[src].exists
  /\ pc' = "fatal"
  /\ UNCHANGED <<disk, report_out, loadVars, resultVars, setVars, writes, runVars>>

\* load_words: one iteration of the loop
LoadLine ==
  /\ pc = "reading"
  /\ pending # <<>>
  /\ LET r == LoadStep(words, stats, Head(pending), FilterPhrasesOf(source)) IN
       /\ line' = Head(pending)
       /\ normalized' = r.normalized
       /\ branch' = r.branch
       /\ words' = r.words
       /\ stats' = r.stats
  /\ pending' = Tail(pending)
  /\ UNCHANGED <<pc, source, disk, report_out, resultVars, setVars, writes, runVars>>

\* load_words returns to main
ReturnWords ==
  /\ pc = "reading"
  /\ pending = <<>>
  /\ IF source = "uk_ua"
     THEN /\ uk_ua_words' = words /\ uk_ua_stats' = stats
          /\ UNCHANGED <<uk_full_words, uk_full_stats>>
          /\ pc' = "load_uk_full"
     ELSE /\ uk_full_words' = words /\ uk_full_stats' = stats
          /\ UNCHANGED <<uk_ua_words, uk_ua_stats>>
          /\ pc' = "sets"
  /\ UNCHANGED <<disk, report_out, loadVars, setVars, writes, runVars>>

ComputeSets ==
  /\ pc = "sets"
  /\ merged' = uk_ua_words \cup uk_full_words
  /\ only_uk_ua' = uk_ua_words \ uk_full_words
  /\ only_uk_full' = uk_full_words \ uk_ua_words
  /\ intersection' = uk_ua_words \cap uk_full_words
  /\ pc' = "write_merged"
  /\ UNCHANGED <<disk, report_out, loadVars, resultVars, writes, runVars>>

WriteMerged ==
  /\ pc = "write_merged"
  /\ disk' = [disk EXCEPT !.merged_out = Present(write_words(merged))]
  /\ writes' = Append(writes, "merged_out")
  /\ pc' = "write_custom"
  /\ UNCHANGED <<report_out, loadVars, resultVars, setVars, runVars>>

WriteCustom ==
  /\ pc = "write_custom"
  /\ disk' = [disk EXCEPT !.custom_out = Present(write_words(only_uk_ua))]
  /\ writes' = Append(writes, "custom_out")
  /\ pc' = "replace"
  /\ UNCHANGED <<report_out, loadVars, resultVars, setVars, runVars>>

\* the overwrite writing the custom (only_uk_ua) list instead of merged
ReplaceRuntime_custom ==
  /\ pc = "replace"
  /\ replace_runtime
  /\ disk' = [disk EXCEPT !.uk_ua = Present(write_words(only_uk_ua))]
  /\ writes' = Append(writes, "uk_ua")
  /\ pc' = "report"
  /\ UNCHANGED <<report_out, loadVars, resultVars, setVars, runVars>>

ReplaceRuntime ==
  /\ pc = "replace"
  /\ replace_runtime
  /\ disk' = [disk EXCEPT !.uk_ua = Present(write_words(merged))]
  /\ writes' = Append(writes, "uk_ua")
  /\ pc' = "report"
  /\ UNCHANGED <<report_out, loadVars, resultVars, setVars, runVars>>

SkipReplace ==
  /\ pc = "replace"
  /\ ~replace_runtime
  /\ pc' = "report"
  /\ UNCHANGED <<disk, report_out, loadVars, resultVars, setVars, writes, runVars>>

\* the report counting merged_words as the sum of the two source sizes
Report_double_count ==
  [uk_ua |-> uk_ua_stats,
   uk_full |-> uk_full_stats,
   uk_ua_words |-> Cardinality(uk_ua_words),
   uk_full_words |-> Cardinality(uk_full_words),
   merged_words |-> Cardinality(uk_ua_words) + Cardinality(uk_full_words),
   intersection |-> Cardinality(intersection),
   only_uk_ua |-> Cardinality(only_uk_ua),
   only_uk_full |-> Cardinality(only_uk_full),
   replace_runtime |-> replace_runtime]

\* the "stats" and "outputs" objects of the report
Report ==
  [uk_ua |-> uk_ua_stats,
   uk_full |-> uk_full_stats,
   uk_ua_words |-> Cardinality(uk_ua_words),
   uk_full_words |-> Cardinality(uk_full_words),
   merged_words |-> Cardinality(merged),
   intersection |-> Cardinality(intersection),
   only_uk_ua |-> Cardinality(only_uk_ua),
   only_uk_full |-> Cardinality(only_uk_full),
   replace_runtime |-> replace_runtime]

WriteReport ==
  /\ pc = "report"
  /\ report_out' = <<Report>>
  /\ writes' = Append(writes, "report_out")
  /\ pc' = "done"
  /\ UNCHANGED <<disk, loadVars, resultVars, setVars, runVars>>

\* the tool is started again on the files the first run left
Rerun ==
  /\ pc = "done"
  /\ ~rerun
  /\ rerun' = TRUE
  /\ prev' = [replace_runtime |-> replace_runtime, merged |-> merged,
              merged_file |-> disk.merged_out]
  /\ replace_runtime' \in BOOLEAN
  /\ start_disk' = disk
  /\ pc' = "load_uk_ua"
  /\ source' = "uk_ua"
  /\ pending' = <<>> /\ line' = <<>> /\ normalized' = <<>> /\ branch' = "none"
  /\ words' = {} /\ stats' = ZeroStats
  /\ uk_ua_words' = {} /\ uk_ua_stats' = ZeroStats
  /\ uk_full_words' = {} /\ uk_full_stats' = ZeroStats
  /\ merged' = {} /\ only_uk_ua' = {} /\ only_uk_full' = {} /\ intersection' = {}
  /\ writes' = <<>>
  /\ UNCHANGED <<disk, report_out>>

Next ==
  \/ \E src \in {"uk_ua", "uk_full"} : OpenInput(src)
  \/ \E src \in {"uk_ua", "uk_full"} : MissingInput(src)
  \/ LoadLine
  \/ ReturnWords
  \/ ComputeSets
  \/ WriteMerged
  \/ WriteCustom
  \/ ReplaceRuntime
  \/ SkipReplace
  \/ WriteReport
  \/ Rerun

Spec == Init /\ [][Next]_vars

\* --------------------------------------- the functions called on their own
InitFn ==
  /\ pc = "call"
  /\ line \in RawStrings
  /\ replace_runtime = FALSE
  /\ disk = [uk_ua |-> Absent, uk_full |-> Absent, merged_out |-> Absent, custom_out |-> Absent]
  /\ report_out = <<>>
  /\ source = "uk_ua"
  /\ pending = <<>>
  /\ normalized = <<>>
  /\ branch = "none"
  /\ words = {}
  /\ stats = ZeroStats
  /\ uk_ua_words = {} /\ uk_ua_stats = ZeroStats
  /\ uk_full_words = {} /\ uk_full_stats = ZeroStats
  /\ merged = {} /\ only_uk_ua = {} /\ only_uk_full = {} /\ intersection = {}
  /\ writes = <<>>
  /\ start_disk = disk
  /\ rerun = FALSE
  /\ prev = NoPrev

\* normalize_word(line)
CallNormalize ==
  /\ pc = "call"
  /\ normalized' = normalize_word(line)
  /\ pc' = "normalized"
  /\ UNCHANGED <<replace_runtime, disk, report_out, source, pending, line, branch,
                 words, stats, resultVars, setVars, writes, start_disk, rerun, prev>>

\* the loop body of load_words on the single line, as main calls it for src
CallLoadStep(src) ==
  /\ pc = "normalized"
  /\ source' = src
  /\ LET r == LoadStep({}, ZeroStats, line, FilterPhrasesOf(src)) IN
       /\ normalized' = r.normalized
       /\ branch' = r.branch
       /\ words' = r.words
       /\ stats' = r.stats
  /\ pc' = "classified"
  /\ UNCHANGED <<replace_runtime, disk, report_out, pending, line,
                 resultVars, setVars, writes, start_disk, rerun, prev>>

NextFn ==
  \/ CallNormalize
  \/ \E src \in {"uk_ua", "uk_full"} : CallLoadStep(src)

SpecFn == InitFn /\ [][NextFn]_vars

\* ============================================================ properties
\* the lines of a written word list, terminators removed
WordsOfFile(f) ==
  LET ls == ReadLines(f.data) IN
  {RStripLF(ls[i]) : i \in 1..Len(ls)}

InCyrillicRange(ch) == ch >= 1024 /\ ch <= 1327

WellFormedWord(w) ==
  /\ Len(w) > 2
  /\ \A i \in 1..Len(w) :
       /\ w[i] \notin {LF, SPACE}
       /\ w[i] # DIGIT_ONE
       /\ w[i] >= 32
       /\ w[i] \in {APOSTROPHE, HYPHEN} \/ InCyrillicRange(w[i])
  /\ \E i \in 1..Len(w) : InCyrillicRange(w[i])

\* the files of disk that write_words has written (in this run or the one before)
WrittenLists ==
  {disk.merged_out, disk.custom_out} \cup
  (IF \E i \in 1..Len(writes) : writes[i] = "uk_ua" THEN {disk.uk_ua} ELSE {})

\* C1: every word load_words accepts, hence every word of merged, only_uk_ua,
\* only_uk_full and intersection and every line write_words writes, is longer
\* than 2, has no whitespace, digit or control character, consists only of
\* apostrophe, hyphen and characters of U+0400..U+052F, and has at least one
\* character of that range.
C1_AcceptedWordsWellFormed ==
  /\ \A w \in words \cup uk_ua_words \cup uk_full_words \cup merged
              \cup only_uk_ua \cup only_uk_full \cup intersection :
       WellFormedWord(w)
  /\ \A f \in WrittenLists : \A w \in WordsOfFile(f) : WellFormedWord(w)

C1_Witness ==
  /\ pc = "done"
  /\ replace_runtime
  /\ merged # {}
  /\ uk_ua_stats.invalid > 0
  /\ uk_full_stats.invalid > 0
  /\ uk_ua_stats.too_short > 0
  /\ disk.uk_ua.data = disk.merged_out.data

\* the tally that records exactly one line of the given class
TallyOf(class) ==
  [lines_total |-> 1,
   empty |-> IF class = "empty" THEN 1 ELSE 0,
   phrases |-> IF class = "phrase" THEN 1 ELSE 0,
   invalid |-> IF class = "invalid" THEN 1 ELSE 0,
   too_short |-> IF class = "too_short" THEN 1 ELSE 0]

HasWhitespace(w) == \E i \in 1..Len(w) : w[i] \in {LF, SPACE}

\* the class the ordered first-match rules give
RuleClass(cand, filter_phrases) ==
  CASE cand = <<>> -> "empty"
    [] cand # <<>> /\ filter_phrases /\ HasWhitespace(cand) -> "phrase"
    [] cand # <<>> /\ ~(filter_phrases /\ HasWhitespace(cand)) /\ ~is_valid_word(cand) -> "invalid"
    [] cand # <<>> /\ ~(filter_phrases /\ HasWhitespace(cand)) /\ is_valid_word(cand)
         /\ Len(cand) <= 2 -> "too_short"
    [] OTHER -> "accepted"

\* C2: the per-line branch of load_words gives the class of the ordered
\* first-match rules (empty, phrase, invalid, too_short, accepted); a candidate
\* with whitespace is a phrase under filter_phrases and invalid otherwise, so
\* source uk_ua (loaded without the filter) never counts a phrase, and a
\* candidate of length <= 2 with a disallowed character is invalid.
C2_FirstMatchClassification ==
  pc = "classified" =>
    LET flt == (source = "uk_full")
        class == RuleClass(normalized, flt)
    IN
    /\ branch = class
    /\ stats = TallyOf(class)
    /\ words = (IF class = "accepted" THEN {normalized} ELSE {})
    /\ HasWhitespace(normalized) => branch = (IF flt THEN "phrase" ELSE "invalid")
    /\ source = "uk_ua" => stats.phrases = 0
    /\ (/\ normalized # <<>>
        /\ Len(normalized) <= 2
        /\ ~HasWhitespace(normalized)
        /\ \E i \in 1..Len(normalized) :
             normalized[i] \notin {APOSTROPHE, HYPHEN} /\ ~InCyrillicRange(normalized[i]))
       => branch = "invalid"

C2_Witness ==
  /\ pc = "classified"
  /\ source = "uk_ua"
  /\ HasWhitespace(normalized)
  /\ Len(line) = 3
  /\ stats.invalid = 1

\* C3: merged, only_uk_ua, only_uk_full and intersection are the union, the two
\* differences and the intersection of the two accepted-word sets, the two
\* differences are disjoint, and the six sizes of the report are the
\* cardinalities of these sets, with merged_words = uk_ua_words +
\* uk_full_words - intersection = only_uk_ua + only_uk_full + intersection.
C3_SetAlgebraAndReport ==
  /\ pc \in {"write_merged", "write_custom", "replace", "report", "done"} =>
       /\ \A w \in merged \cup uk_ua_words \cup uk_full_words :
            /\ w \in merged <=> (w \in uk_ua_words \/ w \in uk_full_words)
            /\ w \in only_uk_ua <=> (w \in uk_ua_words /\ w \notin uk_full_words)
            /\ w \in only_uk_full <=> (w \in uk_full_words /\ w \notin uk_ua_words)
            /\ w \in intersection <=> (w \in uk_ua_words /\ w \in uk_full_words)
       /\ only_uk_ua \cup only_uk_full \cup intersection \subseteq merged
       /\ only_uk_ua \cap only_uk_full = {}
  /\ pc = "done" =>
       LET r == report_out[1] IN
       /\ r.uk_ua_words = Cardinality(uk_ua_words)
       /\ r.uk_full_words = Cardinality(uk_full_words)
       /\ r.merged_words = Cardinality(merged)
       /\ r.intersection = Cardinality(intersection)
       /\ r.only_uk_ua = Cardinality(only_uk_ua)
       /\ r.only_uk_full = Cardinality(only_uk_full)
       /\ r.merged_words = r.uk_ua_words + r.uk_full_words - r.intersection
       /\ r.merged_words = r.only_uk_ua + r.only_uk_full + r.intersection

C3_Witness ==
  /\ pc = "done"
  /\ only_uk_ua # {}
  /\ only_uk_full # {}
  /\ intersection # {}
  /\ report_out[1].merged_words = 3

HasSubSeq(w, p) ==
  \E i \in 1..(Len(w) - Len(p) + 1) : SubSeq(w, i, i + Len(p) - 1) = p

\* C4: normalize_word is idempotent: normalizing the string it returned gives
\* that string back.
C4_NormalizeIdempotent ==
  pc \in {"normalized", "classified"} => normalize_word(normalized) = normalized

\* C5: the string normalize_word returns has no leading or trailing
\* whitespace, no combining acute accent and no occurrence of the mis-encoded
\* apostrophe sequence.
C5_NormalForm ==
  pc \in {"normalized", "classified"} =>
    /\ normalized # <<>> =>
         /\ normalized[1] \notin {LF, SPACE}
         /\ normalized[Len(normalized)] \notin {LF, SPACE}
    /\ \A i \in 1..Len(normalized) : normalized[i] # ACCENT
    /\ ~HasSubSeq(normalized, <<LATIN_A_CIRC, EURO, TRADE_MARK>>)

RejectionSum(st) == st.empty + st.phrases + st.invalid + st.too_short

\* C6 as stated: every class, accepted included, increments one counter of the
\* tally, so lines_total is always the sum of the tally's class counters.
C6_TotalIsSumOfCounters ==
  /\ stats.lines_total = RejectionSum(stats)
  /\ uk_ua_stats.lines_total = RejectionSum(uk_ua_stats)
  /\ uk_full_stats.lines_total = RejectionSum(uk_full_stats)

\* the lines of the open input that the loop has iterated so far
LinesRead ==
  LET all == ReadLines(start_disk[source].data) IN
  SubSeq(all, 1, Len(all) - Len(pending))

AcceptedLines(lines, filter_phrases) ==
  {i \in 1..Len(lines) :
     LET cand == normalize_word(lines[i]) IN
     /\ cand # <<>>
     /\ ~(filter_phrases /\ HasWhitespace(cand))
     /\ is_valid_word(cand)
     /\ Len(cand) > 2}

\* one loop iteration: lines_total goes up by one; a rejected line raises
\* exactly its own counter by one, an accepted line raises none and is in words
C6_LineStep ==
  stats' # stats /\ pc = "reading" =>
    /\ stats'.lines_total = stats.lines_total + 1
    /\ branch' \in {"empty", "phrase", "invalid", "too_short", "accepted"}
    /\ stats'.empty = stats.empty + (IF branch' = "empty" THEN 1 ELSE 0)
    /\ stats'.phrases = stats.phrases + (IF branch' = "phrase" THEN 1 ELSE 0)
    /\ stats'.invalid = stats.invalid + (IF branch' = "invalid" THEN 1 ELSE 0)
    /\ stats'.too_short = stats.too_short + (IF branch' = "too_short" THEN 1 ELSE 0)
    /\ branch' = "accepted" => normalized' \in words'
    /\ branch' # "accepted" => words' = words

C6_Totals ==
  /\ pc = "reading" =>
       /\ stats.lines_total = Len(LinesRead)
       /\ stats.lines_total = RejectionSum(stats)
            + Cardinality(AcceptedLines(LinesRead, source = "uk_full"))
  /\ pc \in {"load_uk_full", "sets", "write_merged", "write_custom", "replace", "report", "done"} =>
       LET la == ReadLines(start_disk.uk_ua.data) IN
       /\ uk_ua_stats.lines_total = Len(la)
       /\ uk_ua_stats.lines_total = RejectionSum(uk_ua_stats)
            + Cardinality(AcceptedLines(la, FALSE))
       /\ uk_ua_stats.lines_total >= RejectionSum(uk_ua_stats) + Cardinality(uk_ua_words)
  /\ pc \in {"sets", "write_merged", "write_custom", "replace", "report", "done"} =>
       LET lb == ReadLines(start_disk.uk_full.data) IN
       /\ uk_full_stats.lines_total = Len(lb)
       /\ uk_full_stats.lines_total = RejectionSum(uk_full_stats)
            + Cardinality(AcceptedLines(lb, TRUE))
       /\ uk_full_stats.lines_total >= RejectionSum(uk_full_stats) + Cardinality(uk_full_words)

\* C6 (amended): every line raises lines_total by exactly one; each of the four
\* rejection classes raises exactly its own counter and an accepted line raises
\* no counter (its word joins the set), so after load_words returns lines_total
\* is the sum of the four counters plus the number of accepted lines.
C6_TotalIsSumPlusAccepted == []C6_Totals /\ [][C6_LineStep]_vars

C6_Witness ==
  /\ pc = "sets"
  /\ uk_full_stats.lines_total = 2
  /\ uk_full_stats.phrases = 1
  /\ Cardinality(uk_full_words) = 1
  /\ uk_ua_stats.lines_total = 2
  /\ uk_ua_stats.empty = 1
  /\ Cardinality(uk_ua_words) = 1

\* the lines of a file in order, terminators removed
LinesOfFile(f) ==
  LET ls == ReadLines(f.data) IN [i \in 1..Len(ls) |-> RStripLF(ls[i])]

WrittenAsList(f, ws) ==
  LET raw == ReadLines(f.data)
      ls == LinesOfFile(f)
  IN
  /\ f.exists
  /\ \A i \in 1..Len(raw) : raw[i][Len(raw[i])] = LF
  /\ \A i \in 1..Len(ls) : \A j \in 1..Len(ls) : i < j => StrLess(ls[i], ls[j])
  /\ \A i \in 1..Len(ls) : \A j \in 1..Len(ls) : i # j => ls[i] # ls[j]
  /\ {ls[i] : i \in 1..Len(ls)} = ws
  /\ Len(ls) = Cardinality(ws)
  /\ f.data # <<>> => f.data[Len(f.data)] = LF

WrittenTo(path) == \E i \in 1..Len(writes) : writes[i] = path

\* C7: a file written by write_words, read back line by line, is strictly
\* ascending in code-point order, has no duplicate line, holds exactly the
\* words of the set, one per line, and every line ends with a newline.
C7_WrittenListSorted ==
  /\ WrittenTo("merged_out") => WrittenAsList(disk.merged_out, merged)
  /\ WrittenTo("custom_out") => WrittenAsList(disk.custom_out, only_uk_ua)
  /\ WrittenTo("uk_ua") => WrittenAsList(disk.uk_ua, merged)

C7_Witness ==
  /\ pc = "done"
  /\ WrittenTo("uk_ua")
  /\ Cardinality(merged) = 3
  /\ Cardinality(only_uk_ua) = 2
  /\ LinesOfFile(start_disk.uk_ua) = <<L_HYPHEN, L_PLAIN>>

InputPaths == {"uk_ua", "uk_full"}

InputMissing == \E src \in InputPaths : ~start_disk[src].exists

\* both inputs were read to their last line by this run
BothInputsRead ==
  /\ start_disk.uk_ua.exists
  /\ start_disk.uk_full.exists
  /\ uk_ua_stats.lines_total = Len(ReadLines(start_disk.uk_ua.data))
  /\ uk_full_stats.lines_total = Len(ReadLines(start_disk.uk_full.data))
  /\ pc \notin {"load_uk_ua", "load_uk_full", "reading"}

NothingWritten ==
  /\ writes = <<>>
  /\ disk = start_disk
  /\ InputMissing => report_out = <<>>

C8_State ==
  /\ InputMissing => NothingWritten /\ pc # "done"
  /\ ~NothingWritten => BothInputsRead /\ pc # "fatal"
  /\ pc = "fatal" => InputMissing

C8_Step ==
  /\ (\E src \in InputPaths : pc = PcOfLoad(src) /\ ~disk[src].exists) => pc' = "fatal"
  /\ pc = "reading" => pc' # "fatal"
  /\ (writes' # writes \/ disk' # disk \/ report_out' # report_out) => BothInputsRead

\* C8: a missing input ends the run in the fatal state before any output is
\* written: nothing is written to the merged, custom or report file or to
\* source A until both inputs have been read to the end, and no line of an
\* input, however malformed, leads to the fatal state.
C8_MissingInputFatalBeforeOutput == []C8_State /\ [][C8_Step]_vars

C8_Witness ==
  /\ pc = "fatal"
  /\ start_disk.uk_ua.exists
  /\ ~start_disk.uk_full.exists
  /\ replace_runtime
  /\ uk_ua_stats.invalid = 1
  /\ uk_ua_stats.too_short = 1

\* C9 as stated: after a successful run source A holds the sorted
\* serialization of merged if and only if the replace flag is set.
C9_SerializedIffReplace ==
  pc = "done" =>
    (disk.uk_ua = Present(write_words(merged)) <=> replace_runtime)

\* position of the first write to path in this run, 0 if there is none
WritePos(path) ==
  IF WrittenTo(path) THEN CHOOSE i \in 1..Len(writes) : writes[i] = path ELSE 0

\* merged as the two inputs the run started from determine it
MergedOfStart ==
  load_words(start_disk.uk_ua.data, FALSE).words
    \cup load_words(start_disk.uk_full.data, TRUE).words

\* C9 (amended): after a successful run source A holds the sorted
\* serialization of merged if the replace flag is set and is unchanged if it
\* is not set (it then equals the serialization only if it already did);
\* source B is never changed; the overwrite comes after the merged and custom
\* outputs are written and writes the merged set computed from the content
\* source A had when the run started.
C9_ReplaceOverwritesSourceA ==
  /\ disk.uk_full = start_disk.uk_full
  /\ disk.uk_ua # start_disk.uk_ua => replace_runtime /\ WrittenTo("uk_ua")
  /\ WrittenTo("uk_ua") =>
       /\ replace_runtime
       /\ WritePos("merged_out") > 0 /\ WritePos("merged_out") < WritePos("uk_ua")
       /\ WritePos("custom_out") > 0 /\ WritePos("custom_out") < WritePos("uk_ua")
       /\ disk.uk_ua = Present(write_words(MergedOfStart))
  /\ pc = "done" =>
       /\ replace_runtime => disk.uk_ua = Present(write_words(merged))
       /\ ~replace_runtime => disk.uk_ua = start_disk.uk_ua
       /\ merged = MergedOfStart

C9_Witness ==
  /\ pc = "done"
  /\ replace_runtime
  /\ disk.uk_ua # start_disk.uk_ua
  /\ only_uk_full # {}
  /\ uk_ua_stats.empty > 0

\* C10: a run with the replace flag is a fixpoint: the next run on the
\* overwritten source A and the same source B yields the same merged set and
\* merged file, leaves source A's content as it is, accepts every line of
\* source A (all four rejection counters 0, lines_total = |merged|) and
\* yields only_uk_full = {}.
C10_ReplaceFixpoint ==
  (rerun /\ prev.replace_runtime) =>
    /\ pc \in {"load_uk_full", "sets", "write_merged", "write_custom", "replace", "report", "done"} =>
         /\ uk_ua_stats.empty = 0
         /\ uk_ua_stats.phrases = 0
         /\ uk_ua_stats.invalid = 0
         /\ uk_ua_stats.too_short = 0
         /\ uk_ua_stats.lines_total = Cardinality(prev.merged)
         /\ uk_ua_words = prev.merged
    /\ pc # "fatal"
    /\ disk.uk_ua = start_disk.uk_ua
    /\ disk.merged_out = prev.merged_file
    /\ pc = "done" =>
         /\ merged = prev.merged
         /\ only_uk_full = {}
         /\ uk_ua_stats.lines_total = Cardinality(merged)

C10_Witness ==
  /\ pc = "done"
  /\ rerun
  /\ prev.replace_runtime
  /\ replace_runtime
  /\ Cardinality(merged) = 3
  /\ uk_full_stats.phrases > 0
  /\ intersection = uk_full_words

====
